---- MODULE Spec2Model ----
(***************************************************************************)
(* A model of liberty-parser: the Lark grammar of liberty files and its    *)
(* transformer (liberty/parser.py), the Group tree with its serializer and *)
(* query helpers (liberty/types.py), the boolean function parser           *)
(* (liberty/boolean_functions.py) and the array codec (liberty/arrays.py). *)
(*                                                                         *)
(* A text is a sequence of lexemes.  Outside a quoted string a lexeme is a *)
(* whole word (an identifier, a number literal) or one punctuation         *)
(* character; a double quote, a backslash, a blank and a line break are    *)
(* lexemes of their own, so that the lexer's rule for the end of a quoted  *)
(* string is computed and not assumed.                                     *)
(***************************************************************************)
EXTENDS Integers, Sequences, FiniteSets, TLC

VARIABLES pc, library, call

vars == <<pc, library, call>>

(***************************************************************************)
(* Lexemes                                                                 *)
(***************************************************************************)
DQ == "\""
BS == "\\"
NL == "\n"
SP == " "

\* Identifiers of the inputs, in Python's str order (code points).
NameOrder ==
    <<"A", "B", "C", "D", "E", "F", "G", "H", "I", "INV", "Tree", "Y", "Z", "a",
      "b", "c", "cell", "cell_rise", "direction", "falling", "float", "function",
      "input", "lib", "library", "ns", "numbers", "output", "pin", "related_pin",
      "rising", "t", "timing", "timing_type", "values", "x">>

Names == {NameOrder[i] : i \in DOMAIN NameOrder}

NameIndex(s) == CHOOSE i \in DOMAIN NameOrder : NameOrder[i] = s

\* float(s) for the number literals of the inputs, in tenths.
NumberLiterals == {"1", "1.0", "1.2", "-3", "-3.0", "2", "2.0"}

Min(S) == CHOOSE x \in S : \A y \in S : x <= y

None == [type |-> "None"]

(***************************************************************************)
(* Values of the tree (liberty/types.py, liberty/parser.py)                *)
(***************************************************************************)
PyStr(s) == [type |-> "str", value |-> s]
PyFloat(x) == [type |-> "float", value |-> x]
PyList(xs) == [type |-> "list", value |-> xs]
PyTree(xs) == [type |-> "Tree", value |-> xs]
WithUnit(value, unit) == [type |-> "WithUnit", value |-> value, unit |-> unit]
EscapedString(value) == [type |-> "EscapedString", value |-> value]
Define(attribute_name, group_name, attribute_type) ==
    [attribute_name |-> attribute_name, group_name |-> group_name,
     attribute_type |-> attribute_type]
Group(group_name, args, attributes, groups, defines) ==
    [group_name |-> group_name, args |-> args, attributes |-> attributes,
     groups |-> groups, defines |-> defines]

EmptyDict == [k \in {} |-> None]

\* dict.setdefault(k, v): a key that is present keeps its value
DictSetDefault(d, k, v) == [x \in DOMAIN d \cup {k} |-> IF x \in DOMAIN d THEN d[x] ELSE v]

\* dict.update({k: v})
DictUpdate(d, k, v) == [x \in DOMAIN d \cup {k} |-> IF x = k THEN v ELSE d[x]]

\* The characters of a Python str that is one identifier.
Chars(s) == <<s>>

\* EscapedString.__eq__(self, other) for a str other (given by its characters).
EscapedStringEq(self, other) == self.value = other

\* v == s for a value v of the tree and a str s.
ValueEqStr(v, s) ==
    CASE v.type = "str" -> v.value = s
      [] v.type = "EscapedString" -> EscapedStringEq(v, Chars(s))
      [] OTHER -> FALSE

(***************************************************************************)
(* The lexer of liberty_grammar (Lark's standard lexer)                    *)
(***************************************************************************)
Token(type, value) == [type |-> type, value |-> value]

PunctType(c) ==
    CASE c = "(" -> "LPAR" [] c = ")" -> "RPAR" [] c = "{" -> "LBRACE"
      [] c = "}" -> "RBRACE" [] c = ":" -> "COLON" [] c = ";" -> "SEMICOLON"
      [] c = "," -> "COMMA"

Punct == {"(", ")", "{", "}", ":", ";", ","}

RECURSIVE BackslashRun(_, _, _)
\* The number of backslashes that end at position j, none before position lo.
BackslashRun(text, lo, j) ==
    IF j >= lo /\ text[j] = BS THEN 1 + BackslashRun(text, lo, j - 1) ELSE 0

\* ESCAPED_STRING matched at the double quote at i: the position of the closing
\* quote (the first one after an even run of backslashes, no line break before
\* it), or 0 when the terminal does not match.
ClosingQuote(text, i) ==
    LET cand == {j \in (i + 1)..Len(text) :
                    text[j] = DQ /\ BackslashRun(text, i + 1, j - 1) % 2 = 0}
    IN  IF cand = {} THEN 0
        ELSE LET j == Min(cand)
             IN  IF \E k \in (i + 1)..(j - 1) : text[k] = NL THEN 0 ELSE j

RECURSIVE Lex(_, _)
\* The tokens of text from position i on: WS and NEWLINE (a line break, with
\* or without a backslash before it) are ignored, ESCAPED_STRING is tried
\* before the anonymous double quote of the rule numbers; a character no
\* terminal matches gives a last token of type ERROR.
Lex(text, i) ==
    IF i > Len(text) THEN <<>>
    ELSE LET c == text[i] IN
         CASE c \in {SP, NL} -> Lex(text, i + 1)
           [] c = BS /\ i < Len(text) /\ text[i + 1] = NL -> Lex(text, i + 2)
           [] c = DQ ->
                LET j == ClosingQuote(text, i) IN
                IF j = 0 THEN <<Token("DBLQUOTE", <<c>>)>> \o Lex(text, i + 1)
                ELSE <<Token("ESCAPED_STRING", SubSeq(text, i, j))>> \o Lex(text, j + 1)
           [] c \in Punct -> <<Token(PunctType(c), <<c>>)>> \o Lex(text, i + 1)
           [] c = "define" -> <<Token("DEFINE", <<c>>)>> \o Lex(text, i + 1)
           [] c \in Names -> <<Token("CNAME", <<c>>)>> \o Lex(text, i + 1)
           [] c \in NumberLiterals -> <<Token("SIGNED_NUMBER", <<c>>)>> \o Lex(text, i + 1)
           [] OTHER -> <<Token("ERROR", <<c>>)>>

(***************************************************************************)
(* LibertyTransformer                                                      *)
(***************************************************************************)
RECURSIVE ReplaceEscapedQuote(_)
\* str.replace('\\"', '"')
ReplaceEscapedQuote(s) ==
    IF Len(s) = 0 THEN <<>>
    ELSE IF Len(s) >= 2 /\ s[1] = BS /\ s[2] = DQ
         THEN <<DQ>> \o ReplaceEscapedQuote(SubSeq(s, 3, Len(s)))
         ELSE <<s[1]>> \o ReplaceEscapedQuote(Tail(s))

\* s[1:-1]
StripEnds(s) == SubSeq(s, 2, Len(s) - 1)

escaped_string(s) == EscapedString(ReplaceEscapedQuote(StripEnds(s)))

string(tok) == tok.value

name(tok) == tok.value[1]

unit(tok) == tok.value[1]

\* float(s), in tenths
number(tok) ==
    LET s == tok.value[1] IN
    CASE s \in {"1", "1.0"} -> 10
      [] s = "1.2" -> 12
      [] s \in {"-3", "-3.0"} -> -30
      [] s \in {"2", "2.0"} -> 20

number_with_unit(num, u) == WithUnit(num, u)

simple_attribute(n, value) == [kind |-> "dict", key |-> n, value |-> value]

complex_attribute(n, arg_list) == [kind |-> "dict", key |-> n, value |-> PyList(arg_list)]

define(attribute_name, group_name, attribute_type) ==
    [kind |-> "Define", value |-> Define(attribute_name, group_name, attribute_type)]

\* assert False
AssertionFailed == [type |-> "AssertionError"]

RECURSIVE GroupLoop(_, _, _)
\* The loop of LibertyTransformer.group over the body, from statement i on.
GroupLoop(body, i, acc) ==
    IF i > Len(body) THEN acc
    ELSE LET a == body[i] IN
         CASE a.kind = "dict" ->
                GroupLoop(body, i + 1,
                          [acc EXCEPT !.attributes = DictUpdate(@, a.key, a.value)])
           [] a.kind = "Group" ->
                GroupLoop(body, i + 1, [acc EXCEPT !.groups = Append(@, a.value)])
           [] a.kind = "Define" ->
                GroupLoop(body, i + 1, [acc EXCEPT !.defines = Append(@, a.value)])
           [] OTHER -> AssertionFailed

group(group_name, group_args, body) ==
    GroupLoop(body, 1, Group(group_name, group_args, EmptyDict, <<>>, <<>>))

(***************************************************************************)
(* The parser of liberty_grammar (LALR(1); the grammar has no conflicts)   *)
(***************************************************************************)
Ok(val, pos) == [ok |-> TRUE, val |-> val, pos |-> pos]
Fail(pos) == [ok |-> FALSE, val |-> <<>>, pos |-> pos]

TokType(toks, p) == IF p <= Len(toks) THEN toks[p].type ELSE "$END"

RECURSIVE ParseNumbersTail(_, _, _)
\* numbers: ("," number)* "\"" after a first number
ParseNumbersTail(toks, p, acc) ==
    CASE TokType(toks, p) = "DBLQUOTE" -> Ok(PyTree(acc), p + 1)
      [] TokType(toks, p) = "COMMA" /\ TokType(toks, p + 1) = "SIGNED_NUMBER" ->
            ParseNumbersTail(toks, p + 2, Append(acc, PyFloat(number(toks[p + 1]))))
      [] OTHER -> Fail(p)

\* numbers: "\"" [number ("," number)*] "\"", which no method of the transformer
\* reduces: the value stays a lark Tree
ParseNumbers(toks, p) ==
    CASE TokType(toks, p + 1) = "DBLQUOTE" -> Ok(PyTree(<<>>), p + 2)
      [] TokType(toks, p + 1) = "SIGNED_NUMBER" ->
            ParseNumbersTail(toks, p + 2, <<PyFloat(number(toks[p + 1]))>>)
      [] OTHER -> Fail(p + 1)

\* ?value: name | number | number unit -> number_with_unit | numbers
\*       | string -> escaped_string
ParseValue(toks, p) ==
    CASE TokType(toks, p) = "CNAME" -> Ok(PyStr(name(toks[p])), p + 1)
      [] TokType(toks, p) = "SIGNED_NUMBER" ->
            IF TokType(toks, p + 1) = "CNAME"
            THEN Ok(number_with_unit(number(toks[p]), unit(toks[p + 1])), p + 2)
            ELSE Ok(PyFloat(number(toks[p])), p + 1)
      [] TokType(toks, p) = "ESCAPED_STRING" -> Ok(escaped_string(string(toks[p])), p + 1)
      [] TokType(toks, p) = "DBLQUOTE" -> ParseNumbers(toks, p)
      [] OTHER -> Fail(p)

RECURSIVE ParseValuesTail(_, _, _)

\* The list goes on after the value v
ValuesTailAfter(v, toks, acc) ==
    IF v.ok THEN ParseValuesTail(toks, v.pos, Append(acc, v.val)) ELSE v

\* ("," value)* ")" after a value
ParseValuesTail(toks, p, acc) ==
    CASE TokType(toks, p) = "RPAR" -> Ok(acc, p + 1)
      [] TokType(toks, p) = "COMMA" -> ValuesTailAfter(ParseValue(toks, p + 1), toks, acc)
      [] OTHER -> Fail(p)

\* argument_list: "(" [value ("," value)*] ")"
argument_list(toks, p) ==
    IF TokType(toks, p) # "LPAR" THEN Fail(p)
    ELSE IF TokType(toks, p + 1) = "RPAR" THEN Ok(<<>>, p + 2)
    ELSE ValuesTailAfter(ParseValue(toks, p + 1), toks, <<>>)

\* define: "define" "(" name "," name "," name ")", then the ";" of the statement
ParseDefine(toks, p) ==
    IF /\ TokType(toks, p + 1) = "LPAR" /\ TokType(toks, p + 2) = "CNAME"
       /\ TokType(toks, p + 3) = "COMMA" /\ TokType(toks, p + 4) = "CNAME"
       /\ TokType(toks, p + 5) = "COMMA" /\ TokType(toks, p + 6) = "CNAME"
       /\ TokType(toks, p + 7) = "RPAR" /\ TokType(toks, p + 8) = "SEMICOLON"
    THEN Ok(define(name(toks[p + 2]), name(toks[p + 4]), name(toks[p + 6])), p + 9)
    ELSE Fail(p)

\* simple_attribute: name ":" value, then the ";" of the statement, the value
\* v parsed
SimpleAttributeAfter(v, toks, p) ==
    IF ~v.ok THEN v
    ELSE IF TokType(toks, v.pos) = "SEMICOLON"
         THEN Ok(simple_attribute(name(toks[p]), v.val), v.pos + 1)
         ELSE Fail(v.pos)

RECURSIVE ParseBody(_, _, _)

\* group: name argument_list group_body, the body b parsed
GroupAfterBody(b, group_name, group_args) ==
    IF b.ok THEN Ok(group(group_name, group_args, b.val), b.pos) ELSE b

\* group: name argument_list group_body, the argument list a parsed
GroupAfterArguments(a, toks, p) ==
    IF ~a.ok THEN a
    ELSE IF TokType(toks, a.pos) # "LBRACE" THEN Fail(a.pos)
    ELSE GroupAfterBody(ParseBody(toks, a.pos + 1, <<>>), name(toks[p]), a.val)

\* A nested group g as a statement of the body
GroupStatement(g) ==
    IF g.ok THEN Ok([kind |-> "Group", value |-> g.val], g.pos) ELSE g

\* complex_attribute: name argument_list, then ";", or a nested group, the
\* argument list a parsed
StatementAfterArguments(a, toks, p) ==
    IF ~a.ok THEN a
    ELSE IF TokType(toks, a.pos) = "SEMICOLON"
         THEN Ok(complex_attribute(name(toks[p]), a.val), a.pos + 1)
         ELSE GroupStatement(GroupAfterArguments(a, toks, p))

\* ?statement: attribute ";" | group | define ";"
ParseStatement(toks, p) ==
    CASE TokType(toks, p) = "DEFINE" -> ParseDefine(toks, p)
      [] TokType(toks, p) = "CNAME" /\ TokType(toks, p + 1) = "COLON" ->
            SimpleAttributeAfter(ParseValue(toks, p + 2), toks, p)
      [] TokType(toks, p) = "CNAME" /\ TokType(toks, p + 1) = "LPAR" ->
            StatementAfterArguments(argument_list(toks, p + 1), toks, p)
      [] OTHER -> Fail(p)

\* The body goes on after the statement st
BodyAfter(st, toks, acc) ==
    IF st.ok THEN ParseBody(toks, st.pos, Append(acc, st.val)) ELSE st

\* group_body: "{" (statement)* "}", from a statement on
ParseBody(toks, p, acc) ==
    IF TokType(toks, p) = "RBRACE" THEN Ok(acc, p + 1)
    ELSE BodyAfter(ParseStatement(toks, p), toks, acc)

\* ?start: group
ParseGroup(toks, p) ==
    IF TokType(toks, p) # "CNAME" THEN Fail(p)
    ELSE GroupAfterArguments(argument_list(toks, p + 1), toks, p)

Result(err, val) == [err |-> err, val |-> val]

\* The tree of the parse g when it took every token
StartResult(g, toks) ==
    IF g.ok /\ g.pos = Len(toks) + 1
    THEN Result("none", g.val)
    ELSE Result("UnexpectedInput", None)

ParseTokens(toks) == StartResult(ParseGroup(toks, 1), toks)

\* parse_liberty(data): the Group of the text, or lark's UnexpectedInput
parse_liberty(data) == ParseTokens(Lex(data, 1))

(***************************************************************************)
(* The serializer: Group.__str__ and Group._format                         *)
(***************************************************************************)
\* str(x) for the floats of the inputs (x in tenths)
FloatStr(x) ==
    CASE x = 10 -> "1.0" [] x = 12 -> "1.2" [] x = -30 -> "-3.0" [] x = 20 -> "2.0"

RECURSIVE Join(_, _)
\* sep.join(parts)
Join(parts, sep) ==
    IF Len(parts) = 0 THEN <<>>
    ELSE IF Len(parts) = 1 THEN parts[1]
    ELSE parts[1] \o sep \o Join(Tail(parts), sep)

\* EscapedString.__str__: '"{}"'.format(self.value)
EscapedString_str(self) == <<DQ>> \o self.value \o <<DQ>>

\* WithUnit.__str__: "{}{}".format(self.value, self.unit)
WithUnit_str(self) == <<FloatStr(self.value), self.unit>>

\* str(v) (format_value) of the values the parser builds
format_value(v) ==
    CASE v.type = "str" -> <<v.value>>
      [] v.type = "float" -> <<FloatStr(v.value)>>
      [] v.type = "WithUnit" -> WithUnit_str(v)
      [] v.type = "EscapedString" -> EscapedString_str(v)
      [] v.type = "Tree" ->
            <<"Tree", "(", "numbers", ",", SP, "[">>
            \o Join([i \in DOMAIN v.value |-> <<FloatStr(v.value[i].value)>>], <<",", SP>>)
            \o <<"]", ")">>

indent == <<SP, SP>>

\* The lines of a complex attribute, its values formatted
ListLines(k, v, formatted) ==
    IF \E i \in DOMAIN v : v[i].type = "EscapedString"
    THEN <<<<k, SP, "(">>>>
         \o [i \in DOMAIN formatted |->
               indent \o formatted[i]
               \o (IF i < Len(formatted) THEN <<",", SP, BS>> ELSE <<>>)]
         \o <<<<")", ";">>>>
    ELSE <<<<k, SP, "(">> \o Join(formatted, <<",", SP>>) \o <<")", ";">>>>

\* The lines of one attribute
AttrLines(k, v) ==
    IF v.type = "list"
    THEN ListLines(k, v.value, [i \in DOMAIN v.value |-> format_value(v.value[i])])
    ELSE <<<<k, ":", SP>> \o format_value(v) \o <<";">>>>

\* sorted(self.attributes.items()): the keys in str order
SortedKeys(d) == SelectSeq(NameOrder, LAMBDA k : k \in DOMAIN d)

RECURSIVE Concat(_)
\* chain(*seqs)
Concat(seqs) == IF Len(seqs) = 0 THEN <<>> ELSE seqs[1] \o Concat(Tail(seqs))

\* attr_lines of Group._format
AllAttrLines(attributes, keys) ==
    Concat([i \in DOMAIN keys |-> AttrLines(keys[i], attributes[keys[i]])])

\* The first line of a group: "{} ({}) {{".format(group_name, ", ".join(args))
HeaderLine(self) ==
    <<self.group_name, SP, "(">>
    \o Join([i \in DOMAIN self.args |-> <<self.args[i].value>>], <<",", SP>>)
    \o <<")", SP, "{">>

\* lines.append(indent + l) for every line
Indented(lines) == [i \in DOMAIN lines |-> indent \o lines[i]]

\* The lines of a group, given the lines sub of its sub-groups
FormatLines(self, sub) ==
    IF \E i \in DOMAIN sub : sub[i].err # "none"
    THEN Result("TypeError", <<>>)
    ELSE IF \E i \in DOMAIN self.args : self.args[i].type # "str"
    THEN Result("TypeError", <<>>)
    ELSE Result("none",
                <<HeaderLine(self)>>
                \o Indented(AllAttrLines(self.attributes, SortedKeys(self.attributes))
                            \o Concat([i \in DOMAIN sub |-> sub[i].val]))
                \o <<<<"}">>>>)

RECURSIVE Group_format(_)
\* Group._format: the lines of the group, or the TypeError of ", ".join(self.args)
\* for an argument that is no str
Group_format(self) ==
    FormatLines(self, [i \in DOMAIN self.groups |-> Group_format(self.groups[i])])

\* "\n".join(lines)
JoinLines(lines) ==
    IF lines.err # "none" THEN lines ELSE Result("none", Join(lines.val, <<NL>>))

\* Group.__str__: "\n".join(self._format())
Group_str(self) == JoinLines(Group_format(self))

(***************************************************************************)
(* Queries: Group.get_groups, Group.get_group and the select_* helpers.    *)
(* An optional str parameter is None or PyStr(s).                          *)
(***************************************************************************)
\* A filter that looks at the type name alone
GroupMatchesTypeOnly(g, type_name, argument) == g.group_name = type_name

\* Whether g passes the filter of the list comprehension of get_groups
GroupMatches(g, type_name, argument) ==
    /\ g.group_name = type_name
    /\ \/ argument = None
       \/ (Len(g.args) > 0 /\ ValueEqStr(g.args[1], argument.value))

Group_get_groups(self, type_name, argument) ==
    SelectSeq(self.groups, LAMBDA g : GroupMatches(g, type_name, argument))

\* Group.get_group: the assert raises AssertionError, its message formatted with
\* type_name and len(groups)
Group_get_group(self, type_name, argument) ==
    LET groups == Group_get_groups(self, type_name, argument) IN
    IF Len(groups) = 1
    THEN Result("none", groups[1])
    ELSE Result("AssertionError", [type_name |-> type_name, found |-> Len(groups)])

\* Group.__contains__
Group_contains(self, item) == item \in DOMAIN self.attributes

\* Group.__getitem__ (the key present)
Group_getitem(self, item) == self.attributes[item]

\* hash(v): EscapedString defines __eq__ and no __hash__, a list has none
Hashable(v) == v.type \notin {"EscapedString", "list"}

\* list(sorted(values)) for values of the tree: str among themselves, floats
\* among themselves; any other comparison raises TypeError
Sortable(S) ==
    \/ Cardinality(S) <= 1
    \/ \A v \in S : v.type = "str"
    \/ \A v \in S : v.type = "float"

Sorted(S) ==
    IF \A v \in S : v.type = "str"
    THEN LET ks == SelectSeq(NameOrder, LAMBDA k : PyStr(k) \in S)
         IN  [i \in DOMAIN ks |-> PyStr(ks[i])]
    ELSE IF \A v \in S : v.type = "float"
    THEN SortSeq(LET f[T \in SUBSET S] ==
                        IF T = {} THEN <<>>
                        ELSE LET x == CHOOSE y \in T : TRUE IN <<x>> \o f[T \ {x}]
                 IN  f[S],
                 LAMBDA a, b : a.value < b.value)
    ELSE <<CHOOSE v \in S : TRUE>>

\* raise Exception("... must be one of: {}".format(list(sorted(available))))
InvalidSelection(what, available) ==
    IF Sortable(available)
    THEN Result("Exception", [what |-> what, available |-> Sorted(available)])
    ELSE Result("TypeError", None)

\* {g.args[0] for g in groups}: IndexError at a group without arguments,
\* TypeError at a first argument that cannot be hashed, whichever comes first
FirstArgs(groups) ==
    LET bad == {i \in DOMAIN groups :
                    Len(groups[i].args) = 0 \/ ~Hashable(groups[i].args[1])}
    IN  IF bad = {}
        THEN Result("none", {groups[i].args[1] : i \in DOMAIN groups})
        ELSE IF Len(groups[Min(bad)].args) = 0
        THEN Result("IndexError", None)
        ELSE Result("TypeError", None)

\* The body shared by select_cell and select_pin, the set available built
SelectAmong(available, parent, type_name, what, nm) ==
    IF available.err # "none" THEN available
    ELSE IF PyStr(nm) \in available.val
    THEN Group_get_group(parent, type_name, PyStr(nm))
    ELSE InvalidSelection(what, available.val)

SelectByName(parent, type_name, what, nm) ==
    SelectAmong(FirstArgs(Group_get_groups(parent, type_name, None)),
                parent, type_name, what, nm)

select_cell(lib, cell_name) == SelectByName(lib, "cell", "Cell name", cell_name)

select_pin(cell, pin_name) == SelectByName(cell, "pin", "Pin name", pin_name)

(***************************************************************************)
(* select_timing_table                                                     *)
(***************************************************************************)
\* v.value for a value of the tree: only WithUnit and EscapedString have the
\* attribute.  The str of an EscapedString is given as the identifier it spells
\* (the related_pin strings of the inputs are identifiers).
HasValueAttr(v) == v.type \in {"EscapedString", "WithUnit"}

ValueAttr(v) ==
    IF v.type = "EscapedString"
    THEN PyStr(CHOOSE s \in Names : Chars(s) = v.value)
    ELSE PyFloat(v.value)

\* The timing groups that carry a related_pin attribute (the loop that fills
\* timing_groups_by_related_pin)
WithRelatedPin(pin) ==
    SelectSeq(Group_get_groups(pin, "timing", None),
              LAMBDA g : Group_contains(g, "related_pin"))

\* timing_groups_by_related_pin[k]
GroupsOfRelatedPin(gs, k) ==
    SelectSeq(gs, LAMBDA g : ValueAttr(Group_getitem(g, "related_pin")) = k)

\* {g['timing_type']: g for g in timing_groups}[k]: the last group wins
GroupOfTimingType(timing_groups, k) ==
    LET last == CHOOSE i \in DOMAIN timing_groups :
                    /\ Group_getitem(timing_groups[i], "timing_type") = k
                    /\ \A j \in DOMAIN timing_groups :
                          Group_getitem(timing_groups[j], "timing_type") = k => j <= i
    IN  timing_groups[last]

\* The keys of {g['timing_type']: g for g in timing_groups}
TimingTypesOf(timing_groups) ==
    {Group_getitem(timing_groups[i], "timing_type") : i \in DOMAIN timing_groups}

\* The groups at which the dict comprehension raises: KeyError without the
\* attribute, TypeError for a key that cannot be hashed
BadTimingTypes(timing_groups) ==
    {i \in DOMAIN timing_groups :
        \/ ~Group_contains(timing_groups[i], "timing_type")
        \/ ~Hashable(Group_getitem(timing_groups[i], "timing_type"))}

\* Lines 266 to 274: select by timing_type
ByTimingType(timing_groups, timing_type) ==
    IF timing_type = None /\ Len(timing_groups) = 1
    THEN Result("none", timing_groups[1])
    ELSE IF BadTimingTypes(timing_groups) # {}
    THEN IF ~Group_contains(timing_groups[Min(BadTimingTypes(timing_groups))], "timing_type")
         THEN Result("KeyError", None)
         ELSE Result("TypeError", None)
    ELSE IF timing_type \notin TimingTypesOf(timing_groups)
    THEN InvalidSelection("'timing_type'", TimingTypesOf(timing_groups))
    ELSE Result("none", GroupOfTimingType(timing_groups, timing_type))

\* timing_groups_by_related_pin.keys()
RelatedPins(gs) == {ValueAttr(Group_getitem(gs[i], "related_pin")) : i \in DOMAIN gs}

\* Lines 254 to 264: select by related_pin, gs the timing groups that carry
\* the attribute
ByRelatedPin(gs, related_pin, timing_type) ==
    IF \E i \in DOMAIN gs : ~HasValueAttr(Group_getitem(gs[i], "related_pin"))
    THEN Result("AttributeError", None)
    ELSE IF PyStr(related_pin) \notin RelatedPins(gs)
    THEN InvalidSelection("Related pin name", RelatedPins(gs))
    ELSE ByTimingType(GroupsOfRelatedPin(gs, PyStr(related_pin)), timing_type)

\* Lines 254 to 274: the timing group select_timing_table settles on, or the
\* exception raised before
SelectTimingGroup(pin, related_pin, timing_type) ==
    ByRelatedPin(WithRelatedPin(pin), related_pin, timing_type)

\* {g.group_name for g in timing_group.groups}
TableNamesOf(timing_group) ==
    {PyStr(timing_group.groups[i].group_name) : i \in DOMAIN timing_group.groups}

\* Lines 276 to 281: the table of the timing group tg, if one was selected
SelectTable(tg, table_name) ==
    IF tg.err # "none" THEN tg
    ELSE IF PyStr(table_name) \in TableNamesOf(tg.val)
    THEN Group_get_group(tg.val, table_name, None)
    ELSE InvalidSelection("Table name", TableNamesOf(tg.val))

select_timing_table(pin, related_pin, table_name, timing_type) ==
    SelectTable(SelectTimingGroup(pin, related_pin, timing_type), table_name)

(***************************************************************************)
(* Boolean functions (liberty/boolean_functions.py).  The transformer      *)
(* builds sympy formulas with the operators ~ & ^ | of sympy's Boolean:    *)
(* And, Or and Xor flatten nested calls of their own class and keep their  *)
(* arguments as a set, Xor cancels equal arguments, Not(Not(x)) is x.      *)
(***************************************************************************)
Symbol(n) == [op |-> "Symbol", name |-> n, args |-> {}]
BoolNode(op, args) == [op |-> op, name |-> "", args |-> args]
true == BoolNode("true", {})
false == BoolNode("false", {})

TheOne(S) == CHOOSE x \in S : TRUE

\* ~x
Not(x) ==
    CASE x.op = "Not" -> TheOne(x.args)
      [] x.op = "true" -> false
      [] x.op = "false" -> true
      [] OTHER -> BoolNode("Not", {x})

Flat(op, x) == IF x.op = op THEN x.args ELSE {x}

\* a | b
Or(a, b) ==
    LET args == (Flat("Or", a) \cup Flat("Or", b)) \ {false} IN
    IF true \in args THEN true
    ELSE IF args = {} THEN false
    ELSE IF Cardinality(args) = 1 THEN TheOne(args)
    ELSE BoolNode("Or", args)

\* a & b
And(a, b) ==
    LET args == (Flat("And", a) \cup Flat("And", b)) \ {true} IN
    IF false \in args THEN false
    ELSE IF args = {} THEN true
    ELSE IF Cardinality(args) = 1 THEN TheOne(args)
    ELSE BoolNode("And", args)

XorOf(args) ==
    IF args = {} THEN false
    ELSE IF Cardinality(args) = 1 THEN TheOne(args)
    ELSE BoolNode("Xor", args)

\* a ^ b
Xor(a, b) ==
    LET fa == Flat("Xor", a) \ {false}
        fb == Flat("Xor", b) \ {false}
        args == (fa \ fb) \cup (fb \ fa)
    IN  IF true \in args /\ Cardinality(args) > 1
        THEN Not(XorOf(args \ {true}))
        ELSE XorOf(args)

RECURSIVE or_expr(_)
RECURSIVE and_expr(_)
RECURSIVE xor_expr(_)

\* reduce(__or__, exprs) of a non-empty exprs, from the left
or_expr(exprs) ==
    IF Len(exprs) = 1 THEN exprs[1]
    ELSE Or(or_expr(SubSeq(exprs, 1, Len(exprs) - 1)), exprs[Len(exprs)])

\* reduce(__and__, exprs)
and_expr(exprs) ==
    IF Len(exprs) = 1 THEN exprs[1]
    ELSE And(and_expr(SubSeq(exprs, 1, Len(exprs) - 1)), exprs[Len(exprs)])

\* reduce(__xor__, exprs)
xor_expr(exprs) ==
    IF Len(exprs) = 1 THEN exprs[1]
    ELSE Xor(xor_expr(SubSeq(exprs, 1, Len(exprs) - 1)), exprs[Len(exprs)])

not_expr(x) == Not(x)

\* The terminals of boolean_function_grammar: CNAME and the anonymous
\* operator and parenthesis tokens; WS_INLINE is ignored
BoolOperators == {"!", "'", "^", "&", "*", "+", "|", "(", ")"}

\* CNAME of the boolean grammar (define is no keyword there)
BoolNames == Names \cup {"define"}

IsBoolTerminal(c) == c \in BoolNames \cup BoolOperators

\* The standard lexer: the tokens, and whether every character matched a terminal
BoolLex(data) == SelectSeq(data, LAMBDA c : c # SP)

BoolTok(toks, p) == IF p <= Len(toks) THEN toks[p] ELSE "$END"

\* A token that starts an atom
StartsAtom(t) == t \in BoolNames \cup {"!", "("}

\* The conflict resolved the other way: the and_expr ends at an atom
AndContinuesNever(t) == FALSE

\* The shift/reduce conflict of the optional operator of and_expr: with an
\* atom ahead the LALR parser shifts, which continues the and_expr
AndContinues(t) == StartsAtom(t)

RECURSIVE ParseQuotes(_, _, _)
\* atom: atom "'" -> not_expr, as often as a quote follows
ParseQuotes(toks, p, x) ==
    IF BoolTok(toks, p) = "'" THEN ParseQuotes(toks, p + 1, not_expr(x)) ELSE Ok(x, p)

RECURSIVE ParseAtom(_, _)
RECURSIVE ParseXorExpr(_, _)
RECURSIVE ParseAndTail(_, _, _)
RECURSIVE ParseOrTail(_, _, _)

\* The and_expr goes on after the xor_expr x
AndTailAfter(x, toks, exprs) ==
    IF x.ok THEN ParseAndTail(toks, x.pos, Append(exprs, x.val)) ELSE x

ParseAndExpr(toks, p) == AndTailAfter(ParseXorExpr(toks, p), toks, <<>>)

\* The or_expr goes on after the and_expr a
OrTailAfter(a, toks, exprs) ==
    IF a.ok THEN ParseOrTail(toks, a.pos, Append(exprs, a.val)) ELSE a

ParseOrExpr(toks, p) == OrTailAfter(ParseAndExpr(toks, p), toks, <<>>)

\* "!" atom -> not_expr, the atom a parsed (the conflict on "'" is a shift:
\* the quotes that follow belong to a)
AtomNot(a) == IF a.ok THEN Ok(not_expr(a.val), a.pos) ELSE a

\* "(" or_expr ")", the or_expr e parsed
AtomParen(e, toks) ==
    IF ~e.ok THEN e
    ELSE IF BoolTok(toks, e.pos) = ")" THEN ParseQuotes(toks, e.pos + 1, e.val)
    ELSE Fail(e.pos)

\* ?atom: CNAME -> name | "!" atom -> not_expr | atom "'" -> not_expr
\*      | "(" or_expr ")"
ParseAtom(toks, p) ==
    CASE BoolTok(toks, p) \in BoolNames -> ParseQuotes(toks, p + 1, Symbol(BoolTok(toks, p)))
      [] BoolTok(toks, p) = "!" -> AtomNot(ParseAtom(toks, p + 1))
      [] BoolTok(toks, p) = "(" -> AtomParen(ParseOrExpr(toks, p + 1), toks)
      [] OTHER -> Fail(p)

\* xor_expr "^" xor_expr, both parsed
XorRight(a, r) == IF r.ok THEN Ok(xor_expr(<<a.val, r.val>>), r.pos) ELSE r

\* ?xor_expr: atom | xor_expr "^" xor_expr, the atom a parsed (the conflict on
\* "^" is a shift: the right operand takes the rest of the chain)
XorAfterAtom(a, toks) ==
    IF ~a.ok THEN a
    ELSE IF BoolTok(toks, a.pos) = "^" THEN XorRight(a, ParseXorExpr(toks, a.pos + 1))
    ELSE a

ParseXorExpr(toks, p) == XorAfterAtom(ParseAtom(toks, p), toks)

\* An and_expr whose operands are atoms, so that AND binds tighter than XOR
ParseAndTailOfAtoms(toks, p, exprs) ==
    IF BoolTok(toks, p) \in {"&", "*"} \/ AndContinues(BoolTok(toks, p))
    THEN AndTailAfter(ParseAtom(toks, IF BoolTok(toks, p) \in {"&", "*"} THEN p + 1 ELSE p),
                      toks, exprs)
    ELSE Ok(and_expr(exprs), p)

\* ?and_expr: xor_expr ([ "&" | "*" ]? xor_expr)*
ParseAndTail(toks, p, exprs) ==
    IF BoolTok(toks, p) \in {"&", "*"} \/ AndContinues(BoolTok(toks, p))
    THEN AndTailAfter(ParseXorExpr(toks, IF BoolTok(toks, p) \in {"&", "*"} THEN p + 1 ELSE p),
                      toks, exprs)
    ELSE Ok(and_expr(exprs), p)

\* ?or_expr: and_expr ([ "+" | "|" ] and_expr)*
ParseOrTail(toks, p, exprs) ==
    IF BoolTok(toks, p) \in {"+", "|"} \/ StartsAtom(BoolTok(toks, p))
    THEN OrTailAfter(ParseAndExpr(toks, IF BoolTok(toks, p) \in {"+", "|"} THEN p + 1 ELSE p),
                     toks, exprs)
    ELSE Ok(or_expr(exprs), p)

\* The formula of the parse e of the tokens, or lark's UnexpectedInput
BoolResult(e, toks) ==
    IF (\A i \in DOMAIN toks : IsBoolTerminal(toks[i])) /\ e.ok /\ e.pos = Len(toks) + 1
    THEN Result("none", e.val)
    ELSE Result("UnexpectedInput", None)

ParseBoolTokens(toks) == BoolResult(ParseOrExpr(toks, 1), toks)

\* parse_boolean_function(data) for a str data given by its characters
ParseBooleanString(data) == ParseBoolTokens(BoolLex(data))

\* A str given by its characters
PyStrOfChars(chars) == [type |-> "str", chars |-> chars]

\* The characters of a str value
CharsOf(v) == IF "chars" \in DOMAIN v THEN v.chars ELSE Chars(v.value)

\* parse_boolean_function(data) for a Python object: lark's lexer takes a str
\* and raises TypeError for any other object
parse_boolean_function(data) ==
    IF data.type = "str" THEN ParseBooleanString(CharsOf(data))
    ELSE Result("TypeError", None)

\* Group.get_boolean_function
Group_get_boolean_function(self, key) ==
    IF ~Group_contains(self, key) THEN Result("KeyError", None)
    ELSE parse_boolean_function(Group_getitem(self, key))

(***************************************************************************)
(* The array codec (liberty/arrays.py) and Group.get_array, set_array.     *)
(* A numpy array is [ndim, data]: data is the sequence of the elements     *)
(* (ndim 1) or of the rows (ndim 2).  A float is counted in millionths,    *)
(* the precision of the {0:f} format.                                      *)
(***************************************************************************)
NdArray(ndim, data) == [ndim |-> ndim, data |-> data]

DigitChars == <<"0", "1", "2", "3", "4", "5", "6", "7", "8", "9">>

Million == 1000000

\* array.astype(np.float) of one integer element
AsFloat(x) == x * Million

RECURSIVE NatStr(_)
\* The decimal digits of a natural number
NatStr(n) ==
    IF n < 10 THEN <<DigitChars[n + 1]>>
    ELSE NatStr(n \div 10) \o <<DigitChars[(n % 10) + 1]>>

RECURSIVE Pow10(_)
Pow10(n) == IF n = 0 THEN 1 ELSE 10 * Pow10(n - 1)

\* A format that leaves out the sign
FormatFUnsigned(x) ==
    LET a == IF x < 0 THEN -x ELSE x IN
    NatStr(a \div Million) \o <<".">>
    \o [i \in 1..6 |-> DigitChars[((a \div Pow10(6 - i)) % 10) + 1]]

\* "{0:f}".format(x): sign, integer digits, point, six decimals
FormatF(x) ==
    LET a == IF x < 0 THEN -x ELSE x IN
    (IF x < 0 THEN <<"-">> ELSE <<>>)
    \o NatStr(a \div Million) \o <<".">>
    \o [i \in 1..6 |-> DigitChars[((a \div Pow10(6 - i)) % 10) + 1]]

\* array_to_strings
array_to_strings(array) ==
    LET rows == IF array.ndim = 1 THEN <<array.data>> ELSE array.data IN
    [r \in DOMAIN rows |->
        Join([c \in DOMAIN rows[r] |-> FormatF(AsFloat(rows[r][c]))], <<",", SP>>)]

RECURSIVE RemoveContinuations(_)
\* s.replace("\\\n", "")
RemoveContinuations(s) ==
    IF Len(s) = 0 THEN <<>>
    ELSE IF Len(s) >= 2 /\ s[1] = BS /\ s[2] = NL
         THEN RemoveContinuations(SubSeq(s, 3, Len(s)))
         ELSE <<s[1]>> \o RemoveContinuations(Tail(s))

RECURSIVE SplitAt(_, _)
\* The pieces of s between the occurrences of sep
SplitAt(s, sep) ==
    LET at == {i \in DOMAIN s : s[i] = sep} IN
    IF at = {} THEN <<s>>
    ELSE <<SubSeq(s, 1, Min(at) - 1)>> \o SplitAt(SubSeq(s, Min(at) + 1, Len(s)), sep)

RECURSIVE DigitsValue(_)
DigitsValue(ds) ==
    IF Len(ds) = 0 THEN 0
    ELSE 10 * DigitsValue(SubSeq(ds, 1, Len(ds) - 1))
         + (CHOOSE d \in 0..9 : DigitChars[d + 1] = ds[Len(ds)])

\* One number of np.fromstring: blanks skipped, sign, digits, point, decimals
ParseFloat(piece) ==
    LET t == SelectSeq(piece, LAMBDA c : c # SP)
        neg == Len(t) > 0 /\ t[1] = "-"
        u == IF neg THEN Tail(t) ELSE t
        parts == SplitAt(u, ".")
        frac == IF Len(parts) > 1 THEN parts[2] ELSE <<>>
        val == DigitsValue(parts[1]) * Million + DigitsValue(frac) * Pow10(6 - Len(frac))
    IN  IF neg THEN -val ELSE val

\* np.fromstring(s, sep=',')
FromString(s) ==
    LET pieces == SplitAt(s, ",") IN [i \in DOMAIN pieces |-> ParseFloat(pieces[i])]

\* strings_to_array
strings_to_array(strings) ==
    NdArray(2, [i \in DOMAIN strings |-> FromString(RemoveContinuations(strings[i]))])

\* Text np.fromstring reads as numbers: digits, at most six decimals
IsNumberText(s) ==
    /\ \A i \in DOMAIN s : s[i] \in {SP, ",", "-", "."} \cup {DigitChars[d] : d \in 1..10}
    /\ \A i \in DOMAIN s : s[i] \in {"-", "."} => (i < Len(s) /\ s[i + 1] \notin {SP, ",", "-", "."})
    /\ s # <<>> /\ s[1] # "," /\ s[Len(s)] \notin {",", SP}
    /\ \A i \in DOMAIN s : s[i] = "," => s[i + 1] \notin {","}

\* Whether the attribute holds an array: a list of EscapedString of numbers
HoldsArray(self, key) ==
    /\ Group_contains(self, key)
    /\ LET v == Group_getitem(self, key) IN
       /\ v.type = "list"
       /\ \A i \in DOMAIN v.value :
             v.value[i].type = "EscapedString" /\ IsNumberText(v.value[i].value)

\* Group.get_array, for an attribute that holds an array
Group_get_array(self, key) ==
    LET str_array == Group_getitem(self, key).value IN
    strings_to_array([i \in DOMAIN str_array |-> str_array[i].value])

\* Group.get(key, default)
Group_get(self, key, default) ==
    IF key \in DOMAIN self.attributes THEN self.attributes[key] ELSE default

\* An assignment that starts a new dict
Group_setitemFresh(self, key, value) ==
    [self EXCEPT !.attributes = DictUpdate(EmptyDict, key, value)]

\* Group.__setitem__
Group_setitem(self, key, value) ==
    [self EXCEPT !.attributes = DictUpdate(@, key, value)]

\* Group.set_array
Group_set_array(self, key, value) ==
    LET str_array == array_to_strings(value) IN
    Group_setitem(self, key, PyList([i \in DOMAIN str_array |-> EscapedString(str_array[i])]))

(***************************************************************************)
(* Inputs: liberty texts written as their lexemes.  A text is a group      *)
(* header, up to MaxStmts statements of the root group, and the closing    *)
(* brace; the statements cover every kind of statement and of value.       *)
(***************************************************************************)
MaxStmts == 2

Quoted(chars) == <<DQ>> \o chars \o <<DQ>>

TimingText(body) == <<"timing", "(", ")", "{">> \o body \o <<"}">>

LibraryStatements ==
    { <<"cell", "(", "A", ")", "{", "}">>,
      <<"cell", "(", "B", ")", "{", "cell", "(", "A", ")", "{", "}", "}">>,
      <<"cell", "(", ")", "{", "}">>,
      <<"cell", "(">> \o Quoted(<<"A">>) \o <<")", "{", "}">>,
      <<"pin", "(", "A", ",", "B", ")", "{", "direction", ":", "input", ";", "}">>,
      <<"a", ":", "1", ";">>,
      <<"a", ":", "1.2", "ns", ";">>,
      <<"a", ":">> \o Quoted(<<"x", BS, DQ, "Y">>) \o <<";">>,
      <<"values", "(">> \o Quoted(<<"1", ",", SP, "2">>) \o <<",", SP, BS, NL>>
            \o Quoted(<<"-", "3", ".", "5", ",", "4">>) \o <<")", ";">>,
      <<"b", "(", "x", ",", "-3", ")", ";">>,
      <<"define", "(", "a", ",", "cell", ",", "float", ")", ";">>,
      <<"c", ":", DQ, "1", ",", BS, NL, "2", DQ, ";">> }

CellStatements ==
    { <<"pin", "(", "A", ")", "{", "direction", ":", "input", ";", "}">>,
      <<"pin", "(", "Y", ")", "{", "direction", ":", "output", ";", "function", ":">>
            \o Quoted(<<"A", "'">>) \o <<";", "}">>,
      <<"pin", "(", "Y", ")", "{", "}">>,
      <<"pin", "(", ")", "{", "}">> }

PinStatements ==
    { <<"function", ":">> \o Quoted(<<"A", "'">>) \o <<";">>,
      <<"function", ":", "A", ";">>,
      TimingText(<<"related_pin", ":">> \o Quoted(<<"A">>)
                 \o <<";", "timing_type", ":", "rising", ";", "cell_rise", "(", "t", ")", "{", "}">>),
      TimingText(<<"related_pin", ":">> \o Quoted(<<"A">>)
                 \o <<";", "timing_type", ":", "falling", ";">>),
      TimingText(<<"related_pin", ":">> \o Quoted(<<"A">>)
                 \o <<";", "cell_rise", "(", "t", ")", "{", "}", "cell_rise", "(", ")", "{", "}">>),
      TimingText(<<"related_pin", ":">> \o Quoted(<<"B">>)
                 \o <<";", "timing_type", ":">> \o Quoted(<<"rising">>) \o <<";">>),
      TimingText(<<"timing_type", ":", "rising", ";">>) }

Bodies(S) == UNION {[1..k -> S] : k \in 0..MaxStmts}

GroupText(header, body) == header \o <<"{">> \o Concat(body) \o <<"}">>

\* Texts the grammar rejects
BadInputs ==
    { <<"library", "(", "lib", ")", "{">>,
      <<"library", "(", "lib", ")", "{", "a", ":", ";", "}">>,
      <<"library", "(", "lib", ")", "{", "a", ":", "1", "}">>,
      <<"library", "(", "lib", ")", "{", "define", ":", "1", ";", "}">> }

Inputs ==
    {GroupText(<<"library", "(", "lib", ")">>, b) : b \in Bodies(LibraryStatements)}
    \cup {GroupText(<<"cell", "(", "INV", ")">>, b) : b \in Bodies(CellStatements)}
    \cup {GroupText(<<"pin", "(", "Y", ")">>, b) : b \in Bodies(PinStatements)}
    \cup BadInputs

TypeNames == {"cell", "pin", "timing"}
Arguments == {None, PyStr("A"), PyStr("B")}
SelectNames == {"A", "Y", "Z"}
TimingTypes == {None, PyStr("rising"), PyStr("falling")}
TableNames == {"cell_rise", "x"}
FunctionKeys == {"function", "direction"}

(***************************************************************************)
(* The state machine: a text is parsed, then the tree is serialized and    *)
(* parsed again, or queried.                                               *)
(***************************************************************************)
Init ==
    /\ pc = "init"
    /\ library = None
    /\ call = [op |-> "init"]

ParseLiberty(data) ==
    /\ pc = "init"
    /\ LET r == parse_liberty(data) IN
       /\ pc' = IF r.err = "none" THEN "parsed" ELSE "failed"
       /\ library' = r.val
       /\ call' = [op |-> "parse_liberty", data |-> data, result |-> r]

Str ==
    /\ pc = "parsed"
    /\ call' = [op |-> "str", result |-> Group_str(library)]
    /\ UNCHANGED <<pc, library>>

Reparse ==
    /\ pc = "parsed"
    /\ call.op = "str"
    /\ call.result.err = "none"
    /\ call' = [op |-> "reparse", data |-> call.result.val,
                result |-> parse_liberty(call.result.val)]
    /\ UNCHANGED <<pc, library>>

GetGroups(type_name, argument) ==
    /\ pc = "parsed"
    /\ call' = [op |-> "get_groups", type_name |-> type_name, argument |-> argument,
                result |-> Group_get_groups(library, type_name, argument)]
    /\ UNCHANGED <<pc, library>>

GetGroup(type_name, argument) ==
    /\ pc = "parsed"
    /\ call' = [op |-> "get_group", type_name |-> type_name, argument |-> argument,
                result |-> Group_get_group(library, type_name, argument)]
    /\ UNCHANGED <<pc, library>>

SelectCell(cell_name) ==
    /\ pc = "parsed"
    /\ call' = [op |-> "select_cell", cell_name |-> cell_name,
                result |-> select_cell(library, cell_name)]
    /\ UNCHANGED <<pc, library>>

SelectPin(pin_name) ==
    /\ pc = "parsed"
    /\ call' = [op |-> "select_pin", pin_name |-> pin_name,
                result |-> select_pin(library, pin_name)]
    /\ UNCHANGED <<pc, library>>

SelectTimingTable(related_pin, table_name, timing_type) ==
    /\ pc = "parsed"
    /\ call' = [op |-> "select_timing_table", related_pin |-> related_pin,
                table_name |-> table_name, timing_type |-> timing_type,
                timing_group |-> SelectTimingGroup(library, related_pin, timing_type),
                result |-> select_timing_table(library, related_pin, table_name, timing_type)]
    /\ UNCHANGED <<pc, library>>

GetBooleanFunction(key) ==
    /\ pc = "parsed"
    /\ call' = [op |-> "get_boolean_function", key |-> key,
                result |-> Group_get_boolean_function(library, key)]
    /\ UNCHANGED <<pc, library>>

Next ==
    \/ \E data \in Inputs : ParseLiberty(data)
    \/ Str
    \/ Reparse
    \/ \E t \in TypeNames, a \in Arguments : GetGroups(t, a)
    \/ \E t \in TypeNames, a \in Arguments : GetGroup(t, a)
    \/ \E n \in SelectNames : SelectCell(n)
    \/ \E n \in SelectNames : SelectPin(n)
    \/ \E r \in {"A", "B", "Z"}, n \in TableNames, t \in TimingTypes :
          SelectTimingTable(r, n, t)
    \/ \E k \in FunctionKeys : GetBooleanFunction(k)

Spec == Init /\ [][Next]_vars

(***************************************************************************)
(* The boolean function parser on its own: expressions of up to            *)
(* MaxOperands operands joined by the binary operators or by a blank, and  *)
(* the texts of BoolTexts.                                                 *)
(***************************************************************************)
MaxOperands == 3

BoolOperands ==
    { <<"A">>, <<"B", "'">>, <<"!", "C">>, <<"(", "A", "+", "B", ")">> }

BoolBinary == {"^", "&", "*", "+", "|", SP}

RECURSIVE Interleave(_, _, _)
\* operands[1] ops[1] operands[2] ... from operand i on
Interleave(operands, ops, i) ==
    IF i = Len(operands) THEN operands[i]
    ELSE operands[i] \o <<ops[i]>> \o Interleave(operands, ops, i + 1)

BoolExpressions ==
    UNION { {Interleave(os, ops, 1) : os \in [1..k -> BoolOperands],
                                       ops \in [1..(k - 1) -> BoolBinary]} :
            k \in 1..MaxOperands }

\* f_str of test_parse_boolean_function
TestExpression ==
    <<"A", "'", SP, "+", SP, "B", SP, "+", SP, "C", SP, "&", SP, "D", SP, "+", SP,
      "E", SP, "^", SP, "F", SP, "*", SP, "G", SP, "|", SP, "(", "H", SP, "+", SP, "I", ")">>

\* Expressions with blanks around the operators
SpacedExpressions ==
    { TestExpression,
      <<"A", SP, "B">>,
      <<"A", SP, "+", SP, "B", SP, "C">>,
      <<"A", SP, "B", SP, "|", SP, "C", SP, "^", SP, "D", SP, "E", "'">> }

\* Texts with the literals 0 and 1 of the module docstring
LiteralTexts == { <<"0">>, <<"1">>, <<"A", SP, "+", SP, "1">>, <<"!", "0">> }

\* Texts that are no expression
MalformedTexts == { <<"A", "+">>, <<"(", "A">>, <<"A", ")", "B">>, <<"^", "A">>, <<>> }

BoolInputs == BoolExpressions \cup SpacedExpressions \cup LiteralTexts \cup MalformedTexts

BoolInit ==
    /\ pc = "init"
    /\ library = None
    /\ call \in {[op |-> "input", data |-> data] : data \in BoolInputs}

ParseBooleanFunction ==
    /\ call.op = "input"
    /\ call' = [op |-> "parse_boolean_function", data |-> call.data,
                result |-> parse_boolean_function(PyStrOfChars(call.data))]
    /\ UNCHANGED <<pc, library>>

BoolNext == ParseBooleanFunction

BoolSpec == BoolInit /\ [][BoolNext]_vars

(***************************************************************************)
(* The array accessors on their own: one set_array of a matrix of up to    *)
(* MaxRows rows and MaxCols columns or of a vector, then get_array.        *)
(***************************************************************************)
MaxRows == 2
MaxCols == 2

\* The entries of the vectors, and those of the matrices
Entries == {-12, 0, 105}
MatrixEntries == {-12, 105}

Matrices ==
    UNION { {NdArray(2, m) : m \in [1..r -> [1..c -> MatrixEntries]]} :
            r \in 1..MaxRows, c \in 1..MaxCols }

Vectors == UNION { {NdArray(1, v) : v \in [1..c -> Entries]} : c \in 1..MaxCols }

ArrayKeys == {"values", "x"}

ArrayInputs ==
    { GroupText(<<"cell_rise", "(", "t", ")">>, <<>>),
      GroupText(<<"cell_rise", "(", "t", ")">>,
                << <<"values", "(">> \o Quoted(<<"1", ",", SP, "2">>) \o <<",", SP, BS, NL>>
                   \o Quoted(<<"-", "3", ".", "5", ",", "4">>) \o <<")", ";">>,
                   <<"x", ":", "1", ";">> >>) }

ArrayInit ==
    /\ pc = "parsed"
    /\ library \in {parse_liberty(d).val : d \in ArrayInputs}
    /\ call = [op |-> "init"]

SetArray(key, value) ==
    /\ pc = "parsed"
    /\ library' = Group_set_array(library, key, value)
    /\ call' = [op |-> "set_array", key |-> key, value |-> value]
    /\ UNCHANGED pc

GetArray(key) ==
    /\ pc = "parsed"
    /\ HoldsArray(library, key)
    /\ call' = [op |-> "get_array", key |-> key, result |-> Group_get_array(library, key),
                after |-> IF call.op = "set_array" THEN call ELSE [op |-> call.op]]
    /\ UNCHANGED <<pc, library>>

ArrayNext ==
    \/ \E key \in ArrayKeys, value \in Matrices : call.op = "init" /\ SetArray(key, value)
    \/ \E key \in ArrayKeys, value \in Vectors : call.op = "init" /\ SetArray(key, value)
    \/ \E key \in ArrayKeys : GetArray(key)

ArraySpec == ArrayInit /\ [][ArrayNext]_vars

(***************************************************************************)
(* LibertyTransformer.group on its own: bodies of up to MaxBody statements *)
(* of the three kinds and of another kind.                                 *)
(***************************************************************************)
MaxBody == 3

\* A transformed sub-group as it stands in a body
GroupValue(g) == [kind |-> "Group", value |-> g]

\* A value that is no dict, Group or Define
OtherValue(v) == [kind |-> v.type, value |-> v]

BuildStatements ==
    { simple_attribute("a", PyFloat(10)),
      simple_attribute("a", EscapedString(<<"x">>)),
      complex_attribute("b", <<PyStr("x"), PyFloat(-30)>>) }

BuildGroups ==
    { GroupValue(Group("cell", <<PyStr("A")>>, EmptyDict, <<>>, <<>>)),
      GroupValue(Group("pin", <<>>, EmptyDict, <<>>, <<>>)) }

BuildDefines == { define("a", "cell", "float"), define("b", "pin", "float") }

BuildOthers == { OtherValue(PyFloat(10)) }

BuildValues == BuildStatements \cup BuildGroups \cup BuildDefines \cup BuildOthers

\* The bodies of n statements
BodiesOf(n) == [1..n -> BuildValues]

BuildInit ==
    /\ pc = "init"
    /\ library = None
    /\ \E n \in 0..MaxBody : call \in {[op |-> "body", body |-> b] : b \in BodiesOf(n)}

\* group(group_name, group_args, body) of the transformer
BuildGroup ==
    /\ call.op = "body"
    /\ call' = [op |-> "group", body |-> call.body,
                result |-> group("lib", <<PyStr("lib")>>, call.body)]
    /\ UNCHANGED <<pc, library>>

BuildNext == BuildGroup

BuildSpec == BuildInit /\ [][BuildNext]_vars

(***************************************************************************)
(* Assignments and queries in any order on a built tree.  A path is 0 for  *)
(* the tree itself and i for its i-th direct sub-group, as reached with    *)
(* get_groups.                                                             *)
(***************************************************************************)
FrameInputs ==
    { GroupText(<<"library", "(", "lib", ")">>,
                << <<"a", ":", "1", ";">>,
                   <<"values", "(">> \o Quoted(<<"1", ",", SP, "2">>) \o <<")", ";">>,
                   <<"define", "(", "a", ",", "cell", ",", "float", ")", ";">>,
                   <<"cell", "(", "A", ")", "{", "x", ":", "1.2", "ns", ";",
                     "pin", "(", "Y", ")", "{", "}", "}">> >>),
      GroupText(<<"pin", "(", "Y", ")">>,
                << <<"function", ":", "A", ";">>,
                   TimingText(<<"related_pin", ":">> \o Quoted(<<"A">>)
                              \o <<";", "timing_type", ":", "rising", ";",
                                   "cell_rise", "(", "t", ")", "{", "}">>) >>) }

FrameKeys == {"values", "x"}
FrameArrays == {NdArray(1, <<-12, 105>>)}
FrameValues == {PyFloat(20)}

FrameInit ==
    /\ pc = "parsed"
    /\ library \in {parse_liberty(d).val : d \in FrameInputs}
    /\ call = [op |-> "init"]

Paths(self) == {0} \cup DOMAIN self.groups

GroupAt(self, path) == IF path = 0 THEN self ELSE self.groups[path]

WithGroupAt(self, path, g) == IF path = 0 THEN g ELSE [self EXCEPT !.groups[path] = g]

\* group.set_array(key, value) for the group at the path
SetArrayAt(path, key, value) ==
    /\ pc = "parsed"
    /\ path \in Paths(library)
    /\ library' = WithGroupAt(library, path, Group_set_array(GroupAt(library, path), key, value))
    /\ call' = [op |-> "set_array", path |-> path, key |-> key]
    /\ UNCHANGED pc

\* group[key] = value for the group at the path
SetItemAt(path, key, value) ==
    /\ pc = "parsed"
    /\ path \in Paths(library)
    /\ library' = WithGroupAt(library, path, Group_setitem(GroupAt(library, path), key, value))
    /\ call' = [op |-> "setitem", path |-> path, key |-> key]
    /\ UNCHANGED pc

\* library.get(key)
Get(key) ==
    /\ pc = "parsed"
    /\ call' = [op |-> "get", key |-> key, result |-> Group_get(library, key, None)]
    /\ UNCHANGED <<pc, library>>

FrameNext ==
    \/ \E path \in 0..1, key \in FrameKeys, value \in FrameArrays : SetArrayAt(path, key, value)
    \/ \E path \in 0..1, key \in FrameKeys, value \in FrameValues : SetItemAt(path, key, value)
    \/ \E key \in FrameKeys : Get(key)
    \/ \E key \in FrameKeys : GetArray(key)
    \/ \E t \in TypeNames, a \in Arguments : GetGroups(t, a)
    \/ \E t \in TypeNames, a \in Arguments : GetGroup(t, a)
    \/ \E n \in SelectNames : SelectCell(n)
    \/ \E n \in SelectNames : SelectPin(n)
    \/ \E r \in {"A", "B", "Z"}, n \in TableNames, t \in TimingTypes :
          SelectTimingTable(r, n, t)

FrameSpec == FrameInit /\ [][FrameNext]_vars

(***************************************************************************)
(* Properties of the tree: serialisation, queries and selection            *)
(***************************************************************************)
\* C1, as the specification states it: for every tree T of a successful
\* parse_liberty, str(T) is produced, parse_liberty(str(T)) succeeds and its
\* tree equals T (name, arguments, attributes, sub-groups and defines).
C1_RoundTrip ==
    /\ (call.op = "str" => call.result.err = "none")
    /\ (call.op = "reparse" => call.result.err = "none" /\ call.result.val = library)

\* The calls get_group(t, a) of the tree that find no group, and more than one
NoMatch(self) ==
    {c \in TypeNames \X Arguments : Len(Group_get_groups(self, c[1], c[2])) = 0}

ManyMatches(self) ==
    {c \in TypeNames \X Arguments : Len(Group_get_groups(self, c[1], c[2])) >= 2}

\* C2, as the specification states it: get_group returns the single match, and
\* the failure with zero matches is of another kind than the failure with two
\* or more matches.
C2_DistinctErrorKinds ==
    /\ (call.op = "get_group"
          /\ Len(Group_get_groups(library, call.type_name, call.argument)) = 1)
       => call.result = Result("none", Group_get_groups(library, call.type_name, call.argument)[1])
    /\ pc = "parsed" =>
          \A c \in NoMatch(library), d \in ManyMatches(library) :
              /\ Group_get_group(library, c[1], c[2]).err # "none"
              /\ Group_get_group(library, d[1], d[2]).err # "none"
              /\ Group_get_group(library, c[1], c[2]).err # Group_get_group(library, d[1], d[2]).err

\* The direct sub-groups of the type whose first argument is the name
NamedSubGroups(self, type_name, nm) ==
    {i \in DOMAIN self.groups :
        /\ self.groups[i].group_name = type_name
        /\ Len(self.groups[i].args) > 0
        /\ ValueEqStr(self.groups[i].args[1], nm)}

\* The first arguments of the direct sub-groups of the type
FirstArguments(self, type_name) ==
    {self.groups[i].args[1] :
        i \in {j \in DOMAIN self.groups : /\ self.groups[j].group_name = type_name
                                          /\ Len(self.groups[j].args) > 0}}

\* C3, as the specification states it: select_cell returns a cell sub-group of
\* that name when there is one, and otherwise fails with the selection error
\* that lists the first arguments of the cell sub-groups, whatever the cell
\* sub-groups are.
C3_SelectCell ==
    call.op = "select_cell" =>
        IF NamedSubGroups(library, "cell", call.cell_name) # {}
        THEN /\ call.result.err = "none"
             /\ \E i \in NamedSubGroups(library, "cell", call.cell_name) :
                   call.result.val = library.groups[i]
        ELSE /\ call.result.err = "Exception"
             /\ {call.result.val.available[i] : i \in DOMAIN call.result.val.available}
                   = FirstArguments(library, "cell")

\* The timing groups select_timing_table has left after the related_pin step
Remaining(pin, related_pin) == GroupsOfRelatedPin(WithRelatedPin(pin), PyStr(related_pin))

\* The related_pin step of select_timing_table succeeds
RelatedPinSelected(pin, related_pin) ==
    /\ \A i \in DOMAIN WithRelatedPin(pin) :
          HasValueAttr(Group_getitem(WithRelatedPin(pin)[i], "related_pin"))
    /\ Len(Remaining(pin, related_pin)) > 0

\* Whether the group carries the timing_type
OfTimingType(g, timing_type) ==
    Group_contains(g, "timing_type") /\ ValueEqStr(Group_getitem(g, "timing_type"), timing_type.value)

\* C4, as the specification states it: with the groups of the related_pin
\* selected, the timing_type step fails with the selection error when several
\* groups remain and no timing_type is given or when no remaining group has
\* the timing_type given, and otherwise settles on a remaining group: the only
\* one, or one of the timing_type given.
C4_TimingTypeStep ==
    (call.op = "select_timing_table" /\ RelatedPinSelected(library, call.related_pin)) =>
        IF \/ (call.timing_type = None /\ Len(Remaining(library, call.related_pin)) > 1)
           \/ /\ call.timing_type # None
              /\ \A i \in DOMAIN Remaining(library, call.related_pin) :
                    ~OfTimingType(Remaining(library, call.related_pin)[i], call.timing_type)
        THEN call.timing_group.err = "Exception"
        ELSE /\ call.timing_group.err = "none"
             /\ \E i \in DOMAIN Remaining(library, call.related_pin) :
                   /\ call.timing_group.val = Remaining(library, call.related_pin)[i]
                   /\ call.timing_type # None =>
                         OfTimingType(Remaining(library, call.related_pin)[i], call.timing_type)

\* C5, as the specification states it: for an attribute whose value is a
\* quoted string, get_boolean_function returns what the boolean parser returns
\* for the text between the quotes.
C5_BooleanFunctionOfQuoted ==
    (/\ call.op = "get_boolean_function"
     /\ Group_contains(library, call.key)
     /\ Group_getitem(library, call.key).type = "EscapedString")
    => call.result = ParseBooleanString(Group_getitem(library, call.key).value)

\* The indices of the direct sub-groups that get_groups is to return
Matching(self, type_name, argument) ==
    {i \in DOMAIN self.groups :
        /\ self.groups[i].group_name = type_name
        /\ \/ argument = None
           \/ /\ Len(self.groups[i].args) > 0
              /\ ValueEqStr(self.groups[i].args[1], argument.value)}

\* C10: get_groups(type_name, argument) returns the direct sub-groups of that
\* type name (with a first argument equal to the argument, when one is given),
\* each once and in the order of sub_groups, and the empty list when there is
\* none; it never fails and never returns a nested descendant.
C10_GetGroups ==
    call.op = "get_groups" =>
        /\ Len(call.result) = Cardinality(Matching(library, call.type_name, call.argument))
        /\ \E f \in [DOMAIN call.result -> Matching(library, call.type_name, call.argument)] :
              /\ \A j, k \in DOMAIN call.result : j < k => f[j] < f[k]
              /\ \A k \in DOMAIN call.result : call.result[k] = library.groups[f[k]]

\* get_groups("cell", "A") of a library with cell (B) { cell (A) { } } and
\* cell (A) { }: the one direct cell A, behind the cell B
C10_Witness ==
    /\ call.op = "get_groups"
    /\ call.type_name = "cell"
    /\ call.argument = PyStr("A")
    /\ Len(library.groups) = 2
    /\ library.groups[1].args = <<PyStr("B")>>
    /\ Len(library.groups[1].groups) = 1
    /\ call.result = <<library.groups[2]>>

(***************************************************************************)
(* Properties of parse_boolean_function                                    *)
(***************************************************************************)
\* The number of parentheses open after the token i
Depth(toks, i) ==
    Cardinality({j \in 1..i : toks[j] = "("}) - Cardinality({j \in 1..i : toks[j] = ")"})

\* The operators of S outside every parenthesis
TopOperators(toks, S) == {i \in DOMAIN toks : toks[i] \in S /\ Depth(toks, i) = 0}

EndsOperand(t) == t \in BoolNames \cup {")", "'"}
StartsOperand(t) == t \in BoolNames \cup {"(", "!"}

\* The places outside every parenthesis where an operand follows an operand
TopJuxtapositions(toks) ==
    {i \in 1..(Len(toks) - 1) :
        Depth(toks, i) = 0 /\ EndsOperand(toks[i]) /\ StartsOperand(toks[i + 1])}

RECURSIVE Grouping(_)

\* The two sides of the operator at i combined
SplitAtOperator(Op(_, _), toks, i) ==
    Op(Grouping(SubSeq(toks, 1, i - 1)), Grouping(SubSeq(toks, i + 1, Len(toks))))

\* The two operands that meet behind i combined
SplitBehind(Op(_, _), toks, i) ==
    Op(Grouping(SubSeq(toks, 1, i)), Grouping(SubSeq(toks, i + 1, Len(toks))))

\* The formula of a well-formed expression by precedence: split at the OR
\* operators first, then at the AND operators and juxtapositions, then at the
\* XOR operators, then take the inverts, parentheses starting over
Grouping(toks) ==
    IF TopOperators(toks, {"+", "|"}) # {}
    THEN SplitAtOperator(Or, toks, Min(TopOperators(toks, {"+", "|"})))
    ELSE IF TopOperators(toks, {"&", "*"}) # {}
    THEN SplitAtOperator(And, toks, Min(TopOperators(toks, {"&", "*"})))
    ELSE IF TopJuxtapositions(toks) # {}
    THEN SplitBehind(And, toks, Min(TopJuxtapositions(toks)))
    ELSE IF TopOperators(toks, {"^"}) # {}
    THEN SplitAtOperator(Xor, toks, Min(TopOperators(toks, {"^"})))
    ELSE IF toks[1] = "!" THEN Not(Grouping(Tail(toks)))
    ELSE IF toks[Len(toks)] = "'" THEN Not(Grouping(SubSeq(toks, 1, Len(toks) - 1)))
    ELSE IF toks[1] = "(" THEN Grouping(SubSeq(toks, 2, Len(toks) - 1))
    ELSE Symbol(toks[1])

WithoutBlanks(data) == SelectSeq(data, LAMBDA c : c # SP)

\* C6: for every well-formed expression, parse_boolean_function returns the
\* formula grouped by precedence: inverts first, then XOR, then AND, then OR,
\* parentheses overriding.
C6_Precedence ==
    (call.op = "parse_boolean_function" /\ call.data \in BoolExpressions \cup SpacedExpressions)
    => call.result = Result("none", Grouping(WithoutBlanks(call.data)))

\* ~A | B | (C & D) | ((E ^ F) & G) | (H | I), f_exp of the test
TestFormula ==
    BoolNode("Or", { BoolNode("Not", {Symbol("A")}), Symbol("B"),
                     BoolNode("And", {Symbol("C"), Symbol("D")}),
                     BoolNode("And", {BoolNode("Xor", {Symbol("E"), Symbol("F")}), Symbol("G")}),
                     Symbol("H"), Symbol("I") })

\* The expression of the test parsed to the formula of the test
C6_Witness ==
    /\ call.op = "parse_boolean_function"
    /\ call.data = TestExpression
    /\ call.result = Result("none", TestFormula)

\* The text with an explicit & for every blank that stands between two operands
ExplicitAnd(data) ==
    [i \in DOMAIN data |->
        IF /\ data[i] = SP
           /\ 1 < i
           /\ i < Len(data)
           /\ EndsOperand(data[i - 1])
           /\ StartsOperand(data[i + 1])
        THEN "&" ELSE data[i]]

\* C7: operands written next to each other are combined with AND: the
\* expression parses to the formula of the expression with & written between
\* them, "A B" to A & B and "A + B C" to A | (B & C).
C7_JuxtapositionIsAnd ==
    (call.op = "parse_boolean_function" /\ call.data \in BoolExpressions \cup SpacedExpressions)
    => /\ call.result.err = "none"
       /\ call.result = ParseBooleanString(ExplicitAnd(call.data))
       /\ call.data = <<"A", SP, "B">>
             => call.result.val = BoolNode("And", {Symbol("A"), Symbol("B")})
       /\ call.data = <<"A", SP, "+", SP, "B", SP, "C">>
             => call.result.val = BoolNode("Or", {Symbol("A"),
                                                  BoolNode("And", {Symbol("B"), Symbol("C")})})

\* "A + B C" parsed to A | (B & C)
C7_Witness ==
    /\ call.op = "parse_boolean_function"
    /\ call.data = <<"A", SP, "+", SP, "B", SP, "C">>
    /\ call.result.err = "none"
    /\ call.result.val.op = "Or"
    /\ BoolNode("And", {Symbol("B"), Symbol("C")}) \in call.result.val.args

\* C8, as the specification states it: the texts with the literals 0 and 1
\* parse, "0" to the constant false and "1" to the constant true.
C8_Literals ==
    (call.op = "parse_boolean_function" /\ call.data \in LiteralTexts)
    => /\ call.result.err = "none"
       /\ call.data = <<"0">> => call.result.val = false
       /\ call.data = <<"1">> => call.result.val = true

(***************************************************************************)
(* Properties of the array accessors                                       *)
(***************************************************************************)
\* The rows of the array, a vector being one row
RowsOf(array) == IF array.ndim = 1 THEN <<array.data>> ELSE array.data

\* C9: set_array(key, M) followed by get_array(key) returns a 2-D array of the
\* shape of M (one row for a vector M) with the elements of M, and set_array
\* stores a list with one quoted string per row.
C9_ArrayRoundTrip ==
    /\ call.op = "set_array" =>
          /\ Group_contains(library, call.key)
          /\ Group_getitem(library, call.key).type = "list"
          /\ Len(Group_getitem(library, call.key).value) = Len(RowsOf(call.value))
          /\ \A i \in DOMAIN Group_getitem(library, call.key).value :
                Group_getitem(library, call.key).value[i].type = "EscapedString"
    /\ (call.op = "get_array" /\ call.after.op = "set_array" /\ call.after.key = call.key) =>
          /\ call.result.ndim = 2
          /\ Len(call.result.data) = Len(RowsOf(call.after.value))
          /\ \A r \in DOMAIN call.result.data :
                /\ Len(call.result.data[r]) = Len(RowsOf(call.after.value)[r])
                /\ \A c \in DOMAIN call.result.data[r] :
                      call.result.data[r][c] = RowsOf(call.after.value)[r][c] * Million

\* A vector of two elements, one negative, read back as one row
C9_Witness ==
    /\ call.op = "get_array"
    /\ call.after.op = "set_array"
    /\ call.after.key = call.key
    /\ call.after.value.ndim = 1
    /\ Len(call.result.data) = 1
    /\ Len(call.result.data[1]) = 2
    /\ call.result.data[1][1] < 0

(***************************************************************************)
(* The frame of assignments and queries                                    *)
(***************************************************************************)
\* The keys the step assigns in the group at the path
AssignedAt(c, path) ==
    IF c.op \in {"set_array", "setitem"} /\ c.path = path THEN {c.key} ELSE {}

\* The attributes keep every key, and every value but those of the keys
AttributesKept(old, new, keys) ==
    /\ DOMAIN old \subseteq DOMAIN new
    /\ DOMAIN new \subseteq DOMAIN old \cup keys
    /\ \A k \in DOMAIN old \ keys : new[k] = old[k]

\* The group keeps its name, arguments and defines, and its attributes but
\* for the keys
GroupKept(g, h, keys) ==
    /\ h.group_name = g.group_name
    /\ h.args = g.args
    /\ h.defines = g.defines
    /\ AttributesKept(g.attributes, h.attributes, keys)

\* The tree t after a step c that gave the tree u
TreeKept(t, u, c) ==
    /\ GroupKept(t, u, AssignedAt(c, 0))
    /\ Len(u.groups) = Len(t.groups)
    /\ \A i \in DOMAIN t.groups :
          /\ GroupKept(t.groups[i], u.groups[i], AssignedAt(c, i))
          /\ u.groups[i].groups = t.groups[i].groups
    /\ c.op \notin {"set_array", "setitem"} => u = t

\* C11: every set_array, key assignment and query on a built tree leaves
\* group_name, args, sub_groups and defines of every group as they were,
\* leaves the value of every attribute key but the one assigned as it was and
\* removes no key; a query changes nothing.
C11_Frame == [][TreeKept(library, library', call')]_vars

\* A key assigned in a sub-group of a tree that has other attributes, a
\* define and an array assigned before
C11_Witness ==
    /\ call.op = "setitem"
    /\ call.path = 1
    /\ call.key = "x"
    /\ library.defines # <<>>
    /\ "a" \in DOMAIN library.attributes
    /\ "x" \in DOMAIN library.attributes
    /\ library.attributes["x"].type = "list"
    /\ library.groups[1].attributes["x"] = PyFloat(20)

(***************************************************************************)
(* Tree building                                                           *)
(***************************************************************************)
\* The values of the statements of the kind, in the order of the body
ValuesOfKind(body, kind) ==
    [i \in DOMAIN SelectSeq(body, LAMBDA a : a.kind = kind) |->
        SelectSeq(body, LAMBDA a : a.kind = kind)[i].value]

\* The places of the attribute statements of the key
PlacesOfKey(body, k) == {i \in DOMAIN body : body[i].kind = "dict" /\ body[i].key = k}

\* The keys of the attribute statements
KeysOf(body) == {body[i].key : i \in {j \in DOMAIN body : body[j].kind = "dict"}}

Max(S) == CHOOSE x \in S : \A y \in S : y <= x

\* C12: group() puts every attribute statement in attributes, a repeated key
\* with the value of its last statement, every sub-group in sub_groups and
\* every define in defines, each in the order of the body and none lost; a
\* statement of another kind ends the construction with an error.
C12_TreeBuilding ==
    call.op = "group" =>
        IF \E i \in DOMAIN call.body : call.body[i].kind \notin {"dict", "Group", "Define"}
        THEN call.result = AssertionFailed
        ELSE /\ call.result.group_name = "lib"
             /\ call.result.args = <<PyStr("lib")>>
             /\ DOMAIN call.result.attributes = KeysOf(call.body)
             /\ \A k \in KeysOf(call.body) :
                   call.result.attributes[k] = call.body[Max(PlacesOfKey(call.body, k))].value
             /\ call.result.groups = ValuesOfKind(call.body, "Group")
             /\ call.result.defines = ValuesOfKind(call.body, "Define")

\* A body with the key a twice, different values, and a sub-group between
C12_Witness ==
    /\ call.op = "group"
    /\ Len(call.body) = 3
    /\ call.body[1] = simple_attribute("a", PyFloat(10))
    /\ call.body[2].kind = "Group"
    /\ call.body[3] = simple_attribute("a", EscapedString(<<"x">>))
    /\ call.result.attributes["a"] = EscapedString(<<"x">>)
    /\ Len(call.result.groups) = 1

(***************************************************************************)
(* Serialisation of quoted strings                                         *)
(***************************************************************************)
RECURSIVE EscapeQuotes(_)
\* The characters with a backslash written before every double quote
EscapeQuotes(chars) ==
    IF Len(chars) = 0 THEN <<>>
    ELSE (IF chars[1] = DQ THEN <<BS, DQ>> ELSE <<chars[1]>>) \o EscapeQuotes(Tail(chars))

\* The quoted strings among the attribute values of the group, those in the
\* lists of complex attributes included
QuotedValues(self) ==
    {self.attributes[k] : k \in {x \in DOMAIN self.attributes :
                                    self.attributes[x].type = "EscapedString"}}
    \cup UNION { {self.attributes[k].value[i] :
                    i \in {j \in DOMAIN self.attributes[k].value :
                              self.attributes[k].value[j].type = "EscapedString"}} :
                 k \in {x \in DOMAIN self.attributes : self.attributes[x].type = "list"} }

\* Whether the text holds the characters at some place
HoldsText(text, chars) ==
    \E i \in 1..(Len(text) - Len(chars) + 1) : SubSeq(text, i, i + Len(chars) - 1) = chars

\* C13, as the specification states it: str() writes every quoted string of
\* the attributes in double quotes with a backslash before every double quote
\* of the value, as one ESCAPED_STRING token that the parser unescapes to the
\* value.
C13_QuotesEscaped ==
    (call.op = "str" /\ call.result.err = "none") =>
        \A v \in QuotedValues(library) :
            /\ EscapedString_str(v) = <<DQ>> \o EscapeQuotes(v.value) \o <<DQ>>
            /\ HoldsText(call.result.val, <<DQ>> \o EscapeQuotes(v.value) \o <<DQ>>)
            /\ Lex(EscapedString_str(v), 1) = <<Token("ESCAPED_STRING", EscapedString_str(v))>>
            /\ escaped_string(EscapedString_str(v)) = v

====
